---- MODULE Spec2Model ----
(***************************************************************************)
(* A model of the line-oriented command interpreter of main.py: the        *)
(* history buffer, the variable and alias stores, the resolver             *)
(* parse_command, the quote re-assembler remove_quates, the guard          *)
(* decorators and the dispatch loop run_shell.                             *)
(*                                                                         *)
(* A Python str is modelled as a sequence of one-character strings, so     *)
(* that strip, split, join, startswith, rfind and slicing are computed     *)
(* character by character as the interpreter computes them.                *)
(***************************************************************************)
EXTENDS Integers, Sequences, FiniteSets, TLC

VARIABLES
    commands_hostory,  \* main.py:9   the history buffer
    env_variables,     \* main.py:11  the Variable Store
    aliases,           \* main.py:12  the Alias Store
    files,             \* the paths that are regular files (os.path.isfile)
    dirs,              \* the paths that are directories (os.path.isdir)
    cwd,               \* the working directory (os.chdir)
    pc,                \* where run_shell is: prompt, parse, dispatch, exited, crashed
    line,              \* run_shell's local `line`, the raw line read last
    pline,             \* the argument of the innermost parse_command call
    depth,             \* the number of parse_command frames on the stack
    command_name,      \* run_shell's local `command_name`
    args,              \* run_shell's local `args`
    out,               \* what was printed since the last line was read
    ran,               \* whether the base handler's body was entered for this line
    delivered,         \* <<a>> when the base run was called with positional
                       \* arguments a for this line, <<>> when it was not called
    exc,               \* the exception the last line raised ("none" when none)
    typed              \* every line entered so far (the environment's record)

vars == << commands_hostory, env_variables, aliases, files, dirs, cwd, pc, line,
           pline, depth, command_name, args, out, ran, delivered, exc, typed >>

-----------------------------------------------------------------------------
(* Bounds of the model.                                                    *)

\* The lines one run of Spec reads.
MaxLines == 2
\* The lines one run of SpecResolve reads.
MaxResolveLines == 3
\* The lines one run of SpecHistory reads.
MaxHistoryLines == 102
\* The arguments of a line of SpecQuote.
MaxQuoteArgs == 3
\* The lines one run of SpecExit reads.
MaxExitLines == 3
\* The lines one run of SpecVars reads.
MaxVarLines == 3
\* The lines one run of SpecGuards reads.
MaxGuardLines == 2
\* The lines one run of SpecStores reads.
MaxStoreLines == 3
\* The depth at which the Python interpreter raises RecursionError.
RecursionLimit == 8

-----------------------------------------------------------------------------
(* Program constants.                                                      *)

EXIT == <<"e", "x", "i", "t">>
MAX_HISTORY_SIZE == 100

-----------------------------------------------------------------------------
(* The str methods the program uses.                                       *)

Whitespace == {" ", "\t"}
LowerCase == {"a", "b", "c", "d", "e", "f", "g", "h", "i", "j", "k", "l", "m",
              "n", "o", "p", "q", "r", "s", "t", "u", "v", "w", "x", "y", "z"}
UpperCase == {"A", "B", "C", "D", "E", "F", "G", "H", "I", "J", "K", "L", "M",
              "N", "O", "P", "Q", "R", "S", "T", "U", "V", "W", "X", "Y", "Z"}
DigitChars == {"0", "1", "2", "3", "4", "5", "6", "7", "8", "9"}

RECURSIVE lstrip(_)
lstrip(s) ==
    IF s # <<>> /\ Head(s) \in Whitespace THEN lstrip(Tail(s)) ELSE s

RECURSIVE rstrip(_)
rstrip(s) ==
    IF s # <<>> /\ s[Len(s)] \in Whitespace
    THEN rstrip(SubSeq(s, 1, Len(s) - 1))
    ELSE s

\* str.strip()
strip(s) == rstrip(lstrip(s))

RECURSIVE split_from(_, _, _)
split_from(s, cur, acc) ==
    IF s = <<>>
    THEN IF cur = <<>> THEN acc ELSE Append(acc, cur)
    ELSE IF Head(s) \in Whitespace
         THEN split_from(Tail(s), <<>>, IF cur = <<>> THEN acc ELSE Append(acc, cur))
         ELSE split_from(Tail(s), Append(cur, Head(s)), acc)

\* str.split(): the maximal runs of non-whitespace characters
split(s) == split_from(s, <<>>, <<>>)

\* " ".join(parts)
RECURSIVE join(_)
join(parts) ==
    IF parts = <<>> THEN <<>>
    ELSE IF Len(parts) = 1 THEN parts[1]
    ELSE parts[1] \o <<" ">> \o join(Tail(parts))

startswith(s, c) == s # <<>> /\ s[1] = c
endswith(s, c) == s # <<>> /\ s[Len(s)] = c

\* str.rfind(c): the last position of c in s, counted from 1; 0 when c is absent
\* (Python counts from 0 and answers -1).
rfind(s, c) ==
    LET at == {i \in 1..Len(s) : s[i] = c}
    IN IF at = {} THEN 0 ELSE CHOOSE i \in at : \A j \in at : j <= i

isidentifier_AcceptsAnyName(s) == s # <<>>

\* str.isidentifier() on the model's alphabet
isidentifier(s) ==
    /\ s # <<>>
    /\ s[1] \in LowerCase \cup UpperCase \cup {"_"}
    /\ \A i \in 1..Len(s) : s[i] \in LowerCase \cup UpperCase \cup DigitChars \cup {"_"}

\* int(s) succeeds: an optional sign and decimal digits
is_int(s) ==
    LET d == IF s # <<>> /\ s[1] \in {"+", "-"} THEN Tail(s) ELSE s
    IN d # <<>> /\ \A i \in 1..Len(d) : d[i] \in DigitChars

\* int(s) < 0, for an s with is_int(s)
is_negative(s) == s[1] = "-" /\ \E i \in 2..Len(s) : s[i] # "0"

\* float(s) succeeds and time.sleep accepts the value: unsigned decimal digits
\* with at most one point.
is_sleep_seconds(s) ==
    LET d == IF s # <<>> /\ s[1] = "+" THEN Tail(s) ELSE s
    IN /\ \E i \in 1..Len(d) : d[i] \in DigitChars
       /\ \A i \in 1..Len(d) : d[i] \in DigitChars \cup {"."}
       /\ Cardinality({i \in 1..Len(d) : d[i] = "."}) <= 1

\* dict.get(key, default)
get(d, key, default) == IF key \in DOMAIN d THEN d[key] ELSE default

\* d[key] = value
dict_set(d, key, value) ==
    [k \in DOMAIN d \cup {key} |-> IF k = key THEN value ELSE d[k]]

\* del d[key]
dict_del(d, key) == [k \in DOMAIN d \ {key} |-> d[k]]

empty_dict == [k \in {} |-> <<>>]

-----------------------------------------------------------------------------
(* The history buffer.                                                     *)

add_to_history_KeepsOldest(history, command) ==
    LET appended == Append(history, command)
    IN IF Len(appended) > MAX_HISTORY_SIZE
       THEN SubSeq(appended, 1, Len(appended) - 1)
       ELSE appended

\* main.py:15-19: append, then drop the oldest entry when over the capacity
add_to_history(history, command) ==
    LET appended == Append(history, command)
    IN IF Len(appended) > MAX_HISTORY_SIZE
       THEN Tail(appended)
       ELSE appended

-----------------------------------------------------------------------------
(* The resolver.                                                           *)

\* main.py:543-546: the part before the last `$`, then the value of the
\* variable named after it
substitute(part, env) ==
    LET last_dolar == rfind(part, "$")
    IN SubSeq(part, 1, last_dolar - 1)
         \o get(env, SubSeq(part, last_dolar + 1, Len(part)), <<>>)

\* main.py:541-546: the loop over the parts
substitute_parts(parts, env) ==
    [i \in 1..Len(parts) |->
        IF startswith(parts[i], "$") THEN substitute(parts[i], env) ELSE parts[i]]

parse_return(name, arguments) ==
    [kind |-> "return", command_name |-> name, args |-> arguments, line |-> <<>>]

parse_recurse(l) ==
    [kind |-> "recurse", command_name |-> <<>>, args |-> <<>>, line |-> l]

parse_command_body_NoReparse(l, env, al) ==
    LET stripped == strip(l)
        parts == split(stripped)
        subst == substitute_parts(parts, env)
    IN IF stripped = <<>> THEN parse_return(<<>>, <<>>)
       ELSE IF \E i \in 1..Len(parts) : startswith(parts[i], "$")
            THEN parse_return(subst[1], Tail(subst))
       ELSE IF parts[1] \in DOMAIN al
            THEN parse_recurse(al[parts[1]] \o <<" ">> \o join(Tail(parts)))
       ELSE parse_return(parts[1], Tail(parts))

parse_command_body_DropsArgs(l, env, al) ==
    LET stripped == strip(l)
        parts == split(stripped)
    IN IF stripped = <<>> THEN parse_return(<<>>, <<>>)
       ELSE IF \E i \in 1..Len(parts) : startswith(parts[i], "$")
            THEN parse_recurse(join(substitute_parts(parts, env)))
       ELSE IF parts[1] \in DOMAIN al
            THEN parse_recurse(al[parts[1]])
       ELSE parse_return(parts[1], Tail(parts))

parse_command_body_ExpandsAliasOnce(l, env, al) ==
    LET stripped == strip(l)
        parts == split(stripped)
        expanded == split(al[parts[1]]) \o Tail(parts)
    IN IF stripped = <<>> THEN parse_return(<<>>, <<>>)
       ELSE IF \E i \in 1..Len(parts) : startswith(parts[i], "$")
            THEN parse_recurse(join(substitute_parts(parts, env)))
       ELSE IF parts[1] \in DOMAIN al
            THEN IF expanded = <<>> THEN parse_return(<<>>, <<>>)
                 ELSE parse_return(expanded[1], Tail(expanded))
       ELSE parse_return(parts[1], Tail(parts))

\* main.py:534-556: one call of parse_command, up to its return or to the
\* recursive call it ends with
parse_command_body(l, env, al) ==
    LET stripped == strip(l)
        parts == split(stripped)
    IN IF stripped = <<>> THEN parse_return(<<>>, <<>>)
       ELSE IF \E i \in 1..Len(parts) : startswith(parts[i], "$")
            THEN parse_recurse(join(substitute_parts(parts, env)))
       ELSE IF parts[1] \in DOMAIN al
            THEN parse_recurse(al[parts[1]] \o <<" ">> \o join(Tail(parts)))
       ELSE parse_return(parts[1], Tail(parts))

\* main.py:534-556: parse_command as a function, with the interpreter's stack
\* limit: `d` frames are on the stack when the call is made
RECURSIVE parse_command(_, _, _, _)
parse_command(l, env, al, d) ==
    IF d >= RecursionLimit
    THEN [kind |-> "RecursionError", command_name |-> <<>>, args |-> <<>>, line |-> l]
    ELSE LET r == parse_command_body(l, env, al)
         IN IF r.kind = "return" THEN r ELSE parse_command(r.line, env, al, d + 1)

-----------------------------------------------------------------------------
(* The registry: the name of every subclass of Command (main.py:531).       *)

c_echo == <<"e", "c", "h", "o">>
c_man == <<"m", "a", "n">>
c_upper == <<"u", "p", "p", "e", "r">>
c_lower == <<"l", "o", "w", "e", "r">>
c_rev == <<"r", "e", "v">>
c_len == <<"l", "e", "n">>
c_uniq == <<"u", "n", "i", "q">>
c_count == <<"c", "o", "u", "n", "t">>
c_sort == <<"s", "o", "r", "t">>
c_reverse == <<"r", "e", "v", "e", "r", "s", "e">>
c_sleep == <<"s", "l", "e", "e", "p">>
c_pwd == <<"p", "w", "d">>
c_cd == <<"c", "d">>
c_ls == <<"l", "s">>
c_mkdir == <<"m", "k", "d", "i", "r">>
c_rmdir == <<"r", "m", "d", "i", "r">>
c_touch == <<"t", "o", "u", "c", "h">>
c_rm == <<"r", "m">>
c_cat == <<"c", "a", "t">>
c_head == <<"h", "e", "a", "d">>
c_tail == <<"t", "a", "i", "l">>
c_write == <<"w", "r", "i", "t", "e">>
c_grep == <<"g", "r", "e", "p">>
c_history == <<"h", "i", "s", "t", "o", "r", "y">>
c_set == <<"s", "e", "t">>
c_unset == <<"u", "n", "s", "e", "t">>
c_env == <<"e", "n", "v">>
c_alias == <<"a", "l", "i", "a", "s">>
c_unalias == <<"u", "n", "a", "l", "i", "a", "s">>

COMMANDS ==
    {c_echo, c_man, c_upper, c_lower, c_rev, c_len, c_uniq, c_count,
     c_sort, c_reverse, c_sleep, c_pwd, c_cd, c_ls, c_mkdir, c_rmdir,
     c_touch, c_rm, c_cat, c_head, c_tail, c_write, c_grep, c_history,
     c_set, c_unset, c_env, c_alias, c_unalias}

-----------------------------------------------------------------------------
(* The file system as the handlers see it. A path is a token; `.` names    *)
(* the working directory and a path without a leading `/` is taken from    *)
(* the working directory.                                                  *)

p_root == <<"/">>
p_d == <<"/", "d">>
p_f == <<"/", "f">>

abspath(path) ==
    IF path = <<".">> THEN cwd
    ELSE IF startswith(path, "/") THEN path
    ELSE IF cwd = p_root THEN p_root \o path
    ELSE cwd \o <<"/">> \o path

exists(path) == abspath(path) \in files \cup dirs
isdir(path) == abspath(path) \in dirs
isfile(path) == abspath(path) \in files

\* whether something lies inside the directory
has_entries(dir) ==
    \E p \in (files \cup dirs) \ {dir} :
        /\ Len(p) > Len(dir)
        /\ SubSeq(p, 1, Len(dir)) = dir
        /\ (dir = p_root \/ p[Len(dir) + 1] = "/")

-----------------------------------------------------------------------------
(* The quote re-assembler.                                                 *)

RECURSIVE remove_quates_loop_KeepsQuote(_, _, _, _)
remove_quates_loop_KeepsQuote(rest, new_args, curr_arg, in_quotes) ==
    IF rest = <<>>
    THEN [new_args |-> new_args, curr_arg |-> curr_arg, in_quotes |-> in_quotes]
    ELSE LET arg == Head(rest)
         IN IF startswith(arg, "\"") /\ ~in_quotes
            THEN remove_quates_loop_KeepsQuote(Tail(rest), new_args, Tail(arg), TRUE)
            ELSE IF endswith(arg, "\"") /\ in_quotes
            THEN remove_quates_loop_KeepsQuote(
                     Tail(rest), Append(new_args, curr_arg \o <<" ">> \o arg), <<>>, FALSE)
            ELSE IF in_quotes
            THEN remove_quates_loop_KeepsQuote(
                     Tail(rest), new_args, curr_arg \o <<" ">> \o arg, TRUE)
            ELSE remove_quates_loop_KeepsQuote(
                     Tail(rest), Append(new_args, arg), curr_arg, FALSE)

RECURSIVE remove_quates_loop_QuotedWordCloses(_, _, _, _)
remove_quates_loop_QuotedWordCloses(rest, new_args, curr_arg, in_quotes) ==
    IF rest = <<>>
    THEN [new_args |-> new_args, curr_arg |-> curr_arg, in_quotes |-> in_quotes]
    ELSE LET arg == Head(rest)
         IN IF startswith(arg, "\"") /\ ~in_quotes
            THEN IF Len(arg) >= 2 /\ endswith(arg, "\"")
                 THEN remove_quates_loop_QuotedWordCloses(
                          Tail(rest), Append(new_args, SubSeq(arg, 2, Len(arg) - 1)),
                          <<>>, FALSE)
                 ELSE remove_quates_loop_QuotedWordCloses(
                          Tail(rest), new_args, Tail(arg), TRUE)
            ELSE IF endswith(arg, "\"") /\ in_quotes
            THEN remove_quates_loop_QuotedWordCloses(
                     Tail(rest),
                     Append(new_args, curr_arg \o <<" ">> \o SubSeq(arg, 1, Len(arg) - 1)),
                     <<>>, FALSE)
            ELSE IF in_quotes
            THEN remove_quates_loop_QuotedWordCloses(
                     Tail(rest), new_args, curr_arg \o <<" ">> \o arg, TRUE)
            ELSE remove_quates_loop_QuotedWordCloses(
                     Tail(rest), Append(new_args, arg), curr_arg, FALSE)

\* main.py:412-424: the loop of remove_quates' wrapper over the arguments
RECURSIVE remove_quates_loop(_, _, _, _)
remove_quates_loop(rest, new_args, curr_arg, in_quotes) ==
    IF rest = <<>>
    THEN [new_args |-> new_args, curr_arg |-> curr_arg, in_quotes |-> in_quotes]
    ELSE LET arg == Head(rest)
         IN IF startswith(arg, "\"") /\ ~in_quotes
            THEN remove_quates_loop(Tail(rest), new_args, Tail(arg), TRUE)
            ELSE IF endswith(arg, "\"") /\ in_quotes
            THEN remove_quates_loop(
                     Tail(rest),
                     Append(new_args, curr_arg \o <<" ">> \o SubSeq(arg, 1, Len(arg) - 1)),
                     <<>>, FALSE)
            ELSE IF in_quotes
            THEN remove_quates_loop(Tail(rest), new_args, curr_arg \o <<" ">> \o arg, TRUE)
            ELSE remove_quates_loop(Tail(rest), Append(new_args, arg), curr_arg, FALSE)

\* main.py:407-430: the wrapper's verdict. It reports unmatched quotes when
\* curr_arg is not empty after the loop (main.py:425), and calls func otherwise.
remove_quates(arguments) ==
    LET r == remove_quates_loop(arguments, <<>>, <<>>, FALSE)
    IN [unmatched |-> r.curr_arg # <<>>, new_args |-> r.new_args]

-----------------------------------------------------------------------------
(* The decorators of each run, outermost first, as Python applies them.    *)

check_path_exist(pos, name) ==
    [kind |-> "check_path_exist", pos |-> pos, name |-> name, default |-> <<>>]
check_is_directory(pos, name) ==
    [kind |-> "check_is_directory", pos |-> pos, name |-> name, default |-> <<>>]
check_is_file(pos, name) ==
    [kind |-> "check_is_file", pos |-> pos, name |-> name, default |-> <<>>]
resolve_defualt(name, pos, default) ==
    [kind |-> "resolve_defualt", pos |-> pos, name |-> name, default |-> default]
quotes_decorator ==
    [kind |-> "remove_quates", pos |-> 0, name |-> "", default |-> <<>>]

\* main.py:222-225
cd_decorators == << check_path_exist(0, "path"), check_is_directory(0, "path") >>

ls_decorators_TypeFirst ==
    << resolve_defualt("path", 0, <<".">>), check_is_directory(0, "path"),
       check_path_exist(0, "path") >>

\* main.py:255-259
ls_decorators ==
    << resolve_defualt("path", 0, <<".">>), check_path_exist(0, "path"),
       check_is_directory(0, "path") >>

\* main.py:282-285
rmdir_decorators == << check_path_exist(0, "path"), check_is_directory(0, "path") >>
\* main.py:308-311
rm_decorators == << check_path_exist(0, "path"), check_is_file(0, "path") >>
\* main.py:349-352
head_decorators ==
    << check_path_exist(1, "file_name"), check_is_file(1, "file_name") >>
\* main.py:374-377
tail_decorators ==
    << check_is_file(1, "file_name"), check_path_exist(1, "file_name") >>
\* main.py:438-442
grep_decorators ==
    << quotes_decorator, check_path_exist(1, "file_name"), check_is_file(1, "file_name") >>
\* main.py:468-470
set_decorators == << quotes_decorator >>
\* main.py:509-511
alias_decorators == << quotes_decorator >>

decorators(cmd) ==
    CASE cmd = c_cd -> cd_decorators
      [] cmd = c_ls -> ls_decorators
      [] cmd = c_rmdir -> rmdir_decorators
      [] cmd = c_rm -> rm_decorators
      [] cmd = c_head -> head_decorators
      [] cmd = c_tail -> tail_decorators
      [] cmd = c_grep -> grep_decorators
      [] cmd = c_set -> set_decorators
      [] cmd = c_alias -> alias_decorators
      [] OTHER -> <<>>

\* The parameters of each base run: the named ones, those with a default, and
\* whether a *args parameter follows.
signature(cmd) ==
    CASE cmd \in {c_echo, c_upper, c_lower, c_rev, c_len, c_uniq, c_count, c_sort,
                  c_reverse, c_cat}
           -> [params |-> <<>>, defaults |-> {}, varargs |-> TRUE]
      [] cmd = c_write
           -> [params |-> <<"file_name">>, defaults |-> {}, varargs |-> TRUE]
      [] cmd \in {c_pwd, c_history, c_env}
           -> [params |-> <<>>, defaults |-> {}, varargs |-> FALSE]
      [] cmd = c_man
           -> [params |-> <<"command_name">>, defaults |-> {}, varargs |-> FALSE]
      [] cmd = c_sleep
           -> [params |-> <<"seconds">>, defaults |-> {}, varargs |-> FALSE]
      [] cmd = c_ls
           -> [params |-> <<"path">>, defaults |-> {"path"}, varargs |-> FALSE]
      [] cmd \in {c_cd, c_mkdir, c_rmdir, c_touch, c_rm}
           -> [params |-> <<"path">>, defaults |-> {}, varargs |-> FALSE]
      [] cmd \in {c_head, c_tail}
           -> [params |-> <<"number_of_lines", "file_name">>, defaults |-> {},
               varargs |-> FALSE]
      [] cmd = c_grep
           -> [params |-> <<"pattern", "file_name">>, defaults |-> {}, varargs |-> FALSE]
      [] cmd = c_set
           -> [params |-> <<"variable_name", "value">>, defaults |-> {}, varargs |-> FALSE]
      [] cmd = c_unset
           -> [params |-> <<"variable_name">>, defaults |-> {}, varargs |-> FALSE]
      [] cmd = c_alias
           -> [params |-> <<"alias_name", "command">>, defaults |-> {}, varargs |-> FALSE]
      [] cmd = c_unalias
           -> [params |-> <<"alias_name">>, defaults |-> {}, varargs |-> FALSE]

\* Whether Python can bind the call func(*a, **kw) to the signature; it raises
\* TypeError when it cannot.
binds(sig, a, kw) ==
    /\ sig.varargs \/ Len(a) <= Len(sig.params)
    /\ \A k \in DOMAIN kw :
           \E i \in 1..Len(sig.params) : sig.params[i] = k /\ i > Len(a)
    /\ \A i \in 1..Len(sig.params) :
           i <= Len(a) \/ sig.params[i] \in DOMAIN kw \/ sig.params[i] \in sig.defaults

-----------------------------------------------------------------------------
(* What a call of command.run does. The environment's part in it is `ev`:  *)
(*   "ok"        nothing goes wrong (and rm's question is answered no),    *)
(*   "yes"       nothing goes wrong and rm's question is answered y,       *)
(*   "fault"     the handler's first call into the operating system fails, *)
(*   "interrupt" Ctrl-C arrives while the handler blocks.                  *)

Events == {"ok", "yes", "fault", "interrupt"}

\* The outcome of a call: the exception that leaves it, what it printed,
\* whether the body of the base run was entered, the positional arguments
\* the base run was called with if it was called, and the stores and the
\* file system after it.
result(e, o, r, d) ==
    [exc |-> e, out |-> o, ran |-> r, delivered |-> d,
     env |-> env_variables, al |-> aliases,
     files |-> files, dirs |-> dirs, cwd |-> cwd]

parent(path) ==
    LET k == rfind(path, "/")
    IN IF k <= 1 THEN p_root ELSE SubSeq(path, 1, k - 1)

\* main.py:328-341: what cat prints for one file name
cat_report(file_name) ==
    IF ~exists(file_name) THEN "NoSuchFile"
    ELSE IF ~isfile(file_name) THEN "IsNotAFile"
    ELSE "Output"

\* The bodies of the run methods (main.py:39-528), entered with positional
\* arguments `a` and keyword arguments `kw` that bind to the signature.
run_body(cmd, a, kw, ev) ==
    LET done(o) == result("none", o, TRUE, <<a>>)
        raise(e) == result(e, <<>>, TRUE, <<a>>)
        path == IF a # <<>> THEN a[1] ELSE get(kw, "path", <<".">>)
    IN CASE cmd \in {c_echo, c_upper, c_lower, c_rev, c_len, c_count, c_sort,
                     c_reverse, c_pwd, c_env}
              -> done(<<"Output">>)
         \* main.py:105-107: `set` is the class of main.py:463 here, not the
         \* builtin: set() makes a Command object and `arg not in args_seen`
         \* raises TypeError
         [] cmd = c_uniq
              -> IF a = <<>> THEN done(<<"Output">>) ELSE raise("TypeError")
         [] cmd = c_man
              -> done(<< IF a[1] \in COMMANDS THEN "Output" ELSE "NoManual" >>)
         [] cmd = c_sleep
              -> IF ~is_sleep_seconds(a[1]) THEN done(<<"InvalidSeconds">>)
                 ELSE IF ev = "interrupt" THEN raise("KeyboardInterrupt")
                 ELSE done(<<>>)
         [] cmd = c_cd
              -> IF ev = "fault" THEN raise("OSError")
                 ELSE [done(<<>>) EXCEPT !.cwd = abspath(path)]
         [] cmd = c_ls
              -> IF ev = "fault" THEN raise("OSError") ELSE done(<<"Output">>)
         [] cmd = c_mkdir
              -> IF exists(path) THEN done(<<"AlreadyExists">>)
                 ELSE IF ev = "fault" \/ parent(abspath(path)) \notin dirs
                 THEN raise("OSError")
                 ELSE [done(<<>>) EXCEPT !.dirs = dirs \cup {abspath(path)}]
         [] cmd = c_rmdir
              -> IF ev = "fault" \/ path = <<".">> \/ abspath(path) = p_root
                    \/ has_entries(abspath(path))
                 THEN raise("OSError")
                 ELSE [done(<<>>) EXCEPT !.dirs = dirs \ {abspath(path)}]
         [] cmd = c_touch
              -> IF exists(path) THEN done(<<"AlreadyExists">>)
                 ELSE IF ev = "fault" \/ parent(abspath(path)) \notin dirs
                 THEN raise("OSError")
                 ELSE [done(<<>>) EXCEPT !.files = files \cup {abspath(path)}]
         [] cmd = c_rm
              -> IF ev = "interrupt" THEN raise("KeyboardInterrupt")
                 ELSE IF ev = "fault" THEN raise("EOFError")
                 ELSE IF ev = "yes"
                 THEN [done(<<"Deleted">>) EXCEPT !.files = files \ {abspath(path)}]
                 ELSE done(<<"Cancelled">>)
         [] cmd = c_cat
              -> LET reports == [i \in 1..Len(a) |-> cat_report(a[i])]
                     opened == {i \in 1..Len(a) : isfile(a[i])}
                     first == CHOOSE i \in opened : \A j \in opened : i <= j
                 IN IF ev = "fault" /\ opened # {}
                    THEN result("OSError", SubSeq(reports, 1, first), TRUE, <<a>>)
                    ELSE done(reports)
         [] cmd \in {c_head, c_tail}
              -> IF ~is_int(a[1]) THEN done(<<"InvalidNumber">>)
                 ELSE IF is_negative(a[1]) THEN done(<<"NegativeNumber">>)
                 ELSE IF ev = "fault" THEN raise("OSError")
                 ELSE done(<<"Output">>)
         [] cmd = c_write
              -> IF exists(a[1]) /\ ~isfile(a[1]) THEN done(<<"IsNotAFile">>)
                 ELSE IF ev = "fault" \/ parent(abspath(a[1])) \notin dirs
                 THEN raise("OSError")
                 ELSE [done(<<"Written">>) EXCEPT !.files = files \cup {abspath(a[1])}]
         [] cmd = c_grep
              -> IF ev = "fault" THEN raise("OSError") ELSE done(<<"Output">>)
         [] cmd = c_history
              -> done(<< IF commands_hostory = <<>> THEN "NoHistory" ELSE "Output" >>)
         [] cmd = c_set
              -> IF ~isidentifier(a[1]) THEN done(<<"InvalidName">>)
                 ELSE [done(<<>>) EXCEPT !.env = dict_set(env_variables, a[1], a[2])]
         [] cmd = c_unset
              -> IF a[1] \in DOMAIN env_variables
                 THEN [done(<<>>) EXCEPT !.env = dict_del(env_variables, a[1])]
                 ELSE done(<<"NotSet">>)
         [] cmd = c_alias
              -> IF ~isidentifier(a[1]) THEN done(<<"InvalidName">>)
                 ELSE [done(<<>>) EXCEPT !.al = dict_set(aliases, a[1], a[2])]
         [] cmd = c_unalias
              -> IF a[1] \in DOMAIN aliases
                 THEN [done(<<>>) EXCEPT !.al = dict_del(aliases, a[1])]
                 ELSE done(<<"NotFound">>)

\* What each guard prints when it fails (main.py:174, 191, 208).
diagnostic(kind) ==
    CASE kind = "check_path_exist" -> "NoSuchFileOrDirectory"
      [] kind = "check_is_directory" -> "NotADirectory"
      [] kind = "check_is_file" -> "NotAFile"

\* The test of each guard (main.py:173, 190, 207).
guard_passes(kind, path) ==
    CASE kind = "check_path_exist" -> exists(path)
      [] kind = "check_is_directory" -> isdir(path)
      [] kind = "check_is_file" -> isfile(path)

RECURSIVE call_GuardFailureGoesOn(_, _, _, _, _)
call_GuardFailureGoesOn(cmd, chain, a, kw, ev) ==
    IF chain = <<>>
    THEN IF binds(signature(cmd), a, kw)
         THEN run_body(cmd, a, kw, ev)
         ELSE result("TypeError", <<>>, FALSE, <<a>>)
    ELSE LET g == Head(chain)
         IN IF g.kind = "remove_quates"
            THEN LET r == remove_quates(a)
                 IN IF r.unmatched
                    THEN result("none", <<"Unmatched">>, FALSE, <<>>)
                    ELSE call_GuardFailureGoesOn(cmd, Tail(chain), r.new_args, kw, ev)
            ELSE IF g.kind = "resolve_defualt"
            THEN call_GuardFailureGoesOn(cmd, Tail(chain), a,
                      IF g.name \notin DOMAIN kw /\ Len(a) <= g.pos
                      THEN dict_set(kw, g.name, g.default)
                      ELSE kw,
                      ev)
            ELSE IF a # <<>> /\ g.pos >= Len(a)
            THEN result("IndexError", <<>>, FALSE, <<>>)
            ELSE IF a = <<>> /\ g.name \notin DOMAIN kw
            THEN result("KeyError", <<>>, FALSE, <<>>)
            ELSE LET path == IF a # <<>> THEN a[g.pos + 1] ELSE kw[g.name]
                     rest == call_GuardFailureGoesOn(cmd, Tail(chain), a, kw, ev)
                 IN IF guard_passes(g.kind, path)
                    THEN rest
                    ELSE [rest EXCEPT !.out = <<diagnostic(g.kind)>> \o rest.out]

\* main.py:166-247 and 407-430: the wrappers of `chain` run outermost first
\* around the base run of cmd. A guard takes its path by
\* `args[pos] if args else kwargs[name]` (main.py:172, 189, 206).
RECURSIVE call(_, _, _, _, _)
call(cmd, chain, a, kw, ev) ==
    IF chain = <<>>
    THEN IF binds(signature(cmd), a, kw)
         THEN run_body(cmd, a, kw, ev)
         ELSE result("TypeError", <<>>, FALSE, <<a>>)
    ELSE LET g == Head(chain)
         IN IF g.kind = "remove_quates"
            THEN LET r == remove_quates(a)
                 IN IF r.unmatched
                    THEN result("none", <<"Unmatched">>, FALSE, <<>>)
                    ELSE call(cmd, Tail(chain), r.new_args, kw, ev)
            ELSE IF g.kind = "resolve_defualt"
            THEN call(cmd, Tail(chain), a,
                      IF g.name \notin DOMAIN kw /\ Len(a) <= g.pos
                      THEN dict_set(kw, g.name, g.default)
                      ELSE kw,
                      ev)
            ELSE IF a # <<>> /\ g.pos >= Len(a)
            THEN result("IndexError", <<>>, FALSE, <<>>)
            ELSE IF a = <<>> /\ g.name \notin DOMAIN kw
            THEN result("KeyError", <<>>, FALSE, <<>>)
            ELSE LET path == IF a # <<>> THEN a[g.pos + 1] ELSE kw[g.name]
                 IN IF guard_passes(g.kind, path)
                    THEN call(cmd, Tail(chain), a, kw, ev)
                    ELSE result("none", <<diagnostic(g.kind)>>, FALSE, <<>>)

reported_InterruptIsAFault(e) ==
    CASE e = "none" -> <<>>
      [] e = "TypeError" -> <<"Usage">>
      [] OTHER -> <<"ErrorOccurred", "Usage">>

\* main.py:573-581: what run_shell prints for the exception that left the call
reported(e) ==
    CASE e = "none" -> <<>>
      [] e = "TypeError" -> <<"Usage">>
      [] e = "KeyboardInterrupt" -> <<"Interrupted">>
      [] OTHER -> <<"ErrorOccurred", "Usage">>

-----------------------------------------------------------------------------
(* The state after construction: main.py:9-12, and a file system holding   *)
(* the root directory (the working directory), one more directory and one  *)
(* file.                                                                   *)

Init ==
    /\ commands_hostory = <<>>
    /\ env_variables = empty_dict
    /\ aliases = empty_dict
    /\ files = {p_f}
    /\ dirs = {p_root, p_d}
    /\ cwd = p_root
    /\ pc = "prompt"
    /\ line = <<>>
    /\ pline = <<>>
    /\ depth = 0
    /\ command_name = <<>>
    /\ args = <<>>
    /\ out = <<>>
    /\ ran = FALSE
    /\ delivered = <<>>
    /\ exc = "none"
    /\ typed = <<>>

\* main.py:562-564: input() returns l, add_to_history(l), parse_command(l) is called
ReadLine(l) ==
    /\ pc = "prompt"
    /\ typed' = Append(typed, l)
    /\ line' = l
    /\ commands_hostory' = add_to_history(commands_hostory, l)
    /\ pc' = "parse"
    /\ pline' = l
    /\ depth' = 1
    /\ command_name' = <<>>
    /\ args' = <<>>
    /\ out' = <<>>
    /\ ran' = FALSE
    /\ delivered' = <<>>
    /\ exc' = "none"
    /\ UNCHANGED << env_variables, aliases, files, dirs, cwd >>

ParseCommandCall_KeepsEveryPass ==
    /\ pc = "parse"
    /\ IF depth > RecursionLimit
       THEN /\ pc' = "crashed"
            /\ exc' = "RecursionError"
            /\ UNCHANGED << pline, depth, command_name, args, commands_hostory >>
       ELSE LET r == parse_command_body(pline, env_variables, aliases)
            IN IF r.kind = "recurse"
               THEN /\ pline' = r.line
                    /\ depth' = depth + 1
                    /\ commands_hostory' = add_to_history(commands_hostory, r.line)
                    /\ UNCHANGED << pc, exc, command_name, args >>
               ELSE /\ command_name' = r.command_name
                    /\ args' = r.args
                    /\ pc' = "dispatch"
                    /\ UNCHANGED << pline, depth, exc, commands_hostory >>
    /\ UNCHANGED << env_variables, aliases, files, dirs, cwd,
                    line, out, ran, delivered, typed >>

\* main.py:534-556 and 564: one frame of parse_command runs. A frame past the
\* interpreter's limit raises RecursionError, which run_shell does not catch
\* (main.py:582 catches KeyboardInterrupt only).
ParseCommandCall ==
    /\ pc = "parse"
    /\ IF depth > RecursionLimit
       THEN /\ pc' = "crashed"
            /\ exc' = "RecursionError"
            /\ UNCHANGED << pline, depth, command_name, args >>
       ELSE LET r == parse_command_body(pline, env_variables, aliases)
            IN IF r.kind = "recurse"
               THEN /\ pline' = r.line
                    /\ depth' = depth + 1
                    /\ UNCHANGED << pc, exc, command_name, args >>
               ELSE /\ command_name' = r.command_name
                    /\ args' = r.args
                    /\ pc' = "dispatch"
                    /\ UNCHANGED << pline, depth, exc >>
    /\ UNCHANGED << commands_hostory, env_variables, aliases, files, dirs, cwd,
                    line, out, ran, delivered, typed >>

Dispatch_ExitTakesNoArguments ==
    /\ pc = "dispatch"
    /\ IF command_name = EXIT /\ args = <<>>
       THEN /\ pc' = "exited"
            /\ out' = <<"Exiting">>
            /\ UNCHANGED << env_variables, aliases, files, dirs, cwd, ran,
                            delivered, exc >>
       ELSE IF command_name \notin COMMANDS
       THEN /\ pc' = "prompt"
            /\ out' = <<"UnknownCommand">>
            /\ UNCHANGED << env_variables, aliases, files, dirs, cwd, ran,
                            delivered, exc >>
       ELSE \E ev \in Events :
              LET r == call(command_name, decorators(command_name), args,
                            empty_dict, ev)
              IN /\ pc' = "prompt"
                 /\ out' = r.out \o reported(r.exc)
                 /\ exc' = r.exc
                 /\ ran' = r.ran
                 /\ delivered' = r.delivered
                 /\ env_variables' = r.env
                 /\ aliases' = r.al
                 /\ files' = r.files
                 /\ dirs' = r.dirs
                 /\ cwd' = r.cwd
    /\ UNCHANGED << commands_hostory, line, pline, depth, command_name, args, typed >>

\* main.py:565-581: the exit test, the registry lookup, the call of
\* command.run and the except clauses around it
Dispatch ==
    /\ pc = "dispatch"
    /\ IF command_name = EXIT
       THEN /\ pc' = "exited"
            /\ out' = <<"Exiting">>
            /\ UNCHANGED << env_variables, aliases, files, dirs, cwd, ran,
                            delivered, exc >>
       ELSE IF command_name \notin COMMANDS
       THEN /\ pc' = "prompt"
            /\ out' = <<"UnknownCommand">>
            /\ UNCHANGED << env_variables, aliases, files, dirs, cwd, ran,
                            delivered, exc >>
       ELSE \E ev \in Events :
              LET r == call(command_name, decorators(command_name), args,
                            empty_dict, ev)
              IN /\ pc' = "prompt"
                 /\ out' = r.out \o reported(r.exc)
                 /\ exc' = r.exc
                 /\ ran' = r.ran
                 /\ delivered' = r.delivered
                 /\ env_variables' = r.env
                 /\ aliases' = r.al
                 /\ files' = r.files
                 /\ dirs' = r.dirs
                 /\ cwd' = r.cwd
    /\ UNCHANGED << commands_hostory, line, pline, depth, command_name, args, typed >>

\* main.py:562 and 582-584: Ctrl-C while input() waits leaves the loop
InterruptAtPrompt ==
    /\ pc = "prompt"
    /\ pc' = "exited"
    /\ exc' = "KeyboardInterrupt"
    /\ out' = <<"Exiting">>
    /\ UNCHANGED << commands_hostory, env_variables, aliases, files, dirs, cwd,
                    line, pline, depth, command_name, args, ran, delivered, typed >>

-----------------------------------------------------------------------------
(* The lines the environment enters.                                       *)

w_X == <<"X">>
w_V == <<"V">>
w_abc == <<"a", "b", "c">>
w_ll == <<"l", "l">>
w_tmp == <<"/", "t", "m", "p">>
w_a == <<"a">>
w_b == <<"b">>
w_e == <<"e">>
w_x == <<"x">>
w_v == <<"v">>
w_1 == <<"1">>
w_nope == <<"/", "n", "o", "p", "e">>
w_nosuch == <<"n", "o", "s", "u", "c", "h">>
w_quote == <<"\"">>
w_c == <<"c">>
w_y == <<"y">>
w_z == <<"z">>

dollar(name) == <<"$">> \o name
quoted(words) == <<"\"">> \o join(words) \o <<"\"">>

\* The lines of SpecResolve: definitions of variables and aliases, and lines
\* that use them.
ResolveLines ==
    { join(<<c_alias, w_ll>>) \o <<" ">> \o quoted(<<c_ls, <<"-", "l", "a">> >>),
      join(<<w_ll, w_tmp>>),
      join(<<c_set, w_X, w_abc>>),
      join(<<c_echo, dollar(w_X)>>),
      join(<<c_set, w_V, w_ll>>),
      join(<<dollar(w_V), w_tmp>>),
      join(<<c_alias, w_a>>) \o <<" ">> \o quoted(<<w_b, w_x>>),
      join(<<c_alias, w_b>>) \o <<" ">> \o quoted(<<w_a, w_y>>),
      join(<<c_alias, w_b>>) \o <<" ">> \o quoted(<<c_echo, w_y>>),
      join(<<c_alias, w_c>>) \o <<" ">> \o quoted(<<w_c, w_z>>),
      w_a,
      join(<<w_c, w_x>>),
      join(<<c_echo, <<"p", "r", "e">> \o dollar(w_X)>>),
      join(<<c_alias, w_e>>) \o <<" ">> \o quoted(<<dollar(w_X), w_y>>),
      w_e,
      <<" ", " ">>,
      <<" ">> \o join(<<c_echo, dollar(w_V) \o dollar(w_X)>>) \o <<" ", "\t">> }

\* The lines of Spec: commands with their guards, arities and faults.
Lines ==
    { join(<<c_ls, w_nope>>),
      c_ls,
      c_cd,
      join(<<c_cd, p_d>>),
      join(<<c_head, w_1>>),
      join(<<c_tail, w_1, w_nope>>),
      join(<<c_set, w_x, w_v, w_quote>>),
      join(<<c_set, w_x, <<"\"">> \o w_v>>),
      join(<<c_alias, w_a, w_a>>),
      w_a,
      EXIT,
      w_nosuch,
      join(<<c_rm, p_f>>),
      join(<<c_rmdir, p_d>>),
      join(<<c_uniq, w_a>>),
      join(<<c_echo, w_a>>),
      join(<<c_sleep, w_1>>) }

ReadLineOfSpec ==
    /\ Len(typed) < MaxLines
    /\ \E l \in Lines : ReadLine(l)

ReadLineOfSpecResolve ==
    /\ Len(typed) < MaxResolveLines
    /\ \E l \in ResolveLines : ReadLine(l)

\* The words of the lines of SpecQuote: with a quote in front, behind, on both
\* sides, alone, and without one.
QuoteWords ==
    { w_quote, <<"\"", "a">>, <<"b", "\"">>, w_a, <<"\"", "c", "\"">> }

RECURSIVE words_upto(_)
words_upto(n) ==
    IF n = 0 THEN {<<>>}
    ELSE LET shorter == words_upto(n - 1)
         IN shorter \cup {Append(ws, w) : ws \in shorter, w \in QuoteWords}

\* The lines of SpecQuote: set and alias, whose run is wrapped by remove_quates
\* alone, with up to MaxQuoteArgs words.
QuoteLines ==
    {join(<<c>> \o ws) : c \in {c_set, c_alias}, ws \in words_upto(MaxQuoteArgs)}

\* SpecQuote follows the first line of a run.
ReadLineOfSpecQuote ==
    /\ typed = <<>>
    /\ \E l \in QuoteLines : ReadLine(l)

DigitSeq == <<"0", "1", "2", "3", "4", "5", "6", "7", "8", "9">>

RECURSIVE numeral(_)
numeral(n) ==
    IF n < 10 THEN <<DigitSeq[n + 1]>>
    ELSE numeral(n \div 10) \o <<DigitSeq[(n % 10) + 1]>>

\* The lines of SpecHistory: the n-th line entered is `echo n`.
ReadLineOfSpecHistory ==
    /\ Len(typed) < MaxHistoryLines
    /\ ReadLine(join(<<c_echo, numeral(Len(typed) + 1)>>))

\* The lines of SpecExit: `exit` entered as such, with an argument, between
\* blanks, through an alias and through a variable, and lines that only
\* mention it.
ExitLines ==
    { EXIT,
      join(<<EXIT, w_a>>),
      <<" ">> \o EXIT \o <<" ">>,
      join(<<c_alias, w_x, EXIT>>),
      w_x,
      join(<<w_x, w_a>>),
      join(<<c_set, w_V, EXIT>>),
      dollar(w_V),
      join(<<c_echo, EXIT>>),
      join(<<c_echo, dollar(w_V)>>),
      EXIT \o w_x }

ReadLineOfSpecExit ==
    /\ Len(typed) < MaxExitLines
    /\ \E l \in ExitLines : ReadLine(l)

w_Y == <<"Y">>

\* The lines of SpecVars: variables set to plain text, to text that begins
\* with a reference to another variable or to themselves, and lines that
\* read them.
VarLines ==
    { join(<<c_set, w_X, w_abc>>),
      join(<<c_set, w_Y>>) \o <<" ">> \o quoted(<<dollar(w_X), w_z>>),
      join(<<c_set, w_X>>) \o <<" ">> \o quoted(<<dollar(w_Y), w_z>>),
      join(<<c_set, w_X>>) \o <<" ">> \o quoted(<<dollar(w_X), w_z>>),
      join(<<c_echo, dollar(w_X)>>),
      join(<<c_echo, dollar(w_Y)>>) }

ReadLineOfSpecVars ==
    /\ Len(typed) < MaxVarLines
    /\ \E l \in VarLines : ReadLine(l)

\* The paths of the lines of SpecGuards: one that does not exist, a directory
\* and a file.
GuardPaths == {w_nope, p_d, p_f}

\* The lines of SpecGuards: every command with an existence guard and a type
\* guard on each of the paths, and ls without a path.
GuardLines ==
    {join(<<c, p>>) : c \in {c_cd, c_ls, c_rmdir, c_rm}, p \in GuardPaths}
      \cup {join(<<c, w_1, p>>) : c \in {c_head, c_tail}, p \in GuardPaths}
      \cup {join(<<c_grep, w_a, p>>) : p \in GuardPaths}
      \cup {c_ls}

ReadLineOfSpecGuards ==
    /\ Len(typed) < MaxGuardLines
    /\ \E l \in GuardLines : ReadLine(l)

w_1x == <<"1", "x">>

\* The lines of SpecStores: set, unset, alias and unalias with names that are
\* identifiers, names that are not and names that are not present, and a line
\* that reads both stores.
StoreLines ==
    { join(<<c_set, w_X, w_v>>),
      join(<<c_set, w_a, w_x>>),
      join(<<c_set, w_1x, w_v>>),
      join(<<c_unset, w_X>>),
      join(<<c_unset, w_Y>>),
      join(<<c_alias, w_a>>) \o <<" ">> \o quoted(<<c_echo, w_b>>),
      join(<<c_alias, w_b>>) \o <<" ">> \o quoted(<<w_a, w_y>>),
      join(<<c_alias, w_1x, w_b>>),
      join(<<c_unalias, w_a>>),
      join(<<c_unalias, w_c>>),
      join(<<w_a, dollar(w_X)>>) }

ReadLineOfSpecStores ==
    /\ Len(typed) < MaxStoreLines
    /\ \E l \in StoreLines : ReadLine(l)

-----------------------------------------------------------------------------
(* The specifications: run_shell from the state after construction, on the *)
(* lines of each alphabet.                                                 *)

Next ==
    \/ ReadLineOfSpec
    \/ ParseCommandCall
    \/ Dispatch
    \/ InterruptAtPrompt

Spec == Init /\ [][Next]_vars

NextResolve ==
    \/ ReadLineOfSpecResolve
    \/ ParseCommandCall
    \/ Dispatch
    \/ InterruptAtPrompt

SpecResolve == Init /\ [][NextResolve]_vars

NextQuote ==
    \/ ReadLineOfSpecQuote
    \/ ParseCommandCall
    \/ Dispatch
    \/ InterruptAtPrompt

SpecQuote == Init /\ [][NextQuote]_vars

NextHistory ==
    \/ ReadLineOfSpecHistory
    \/ ParseCommandCall
    \/ Dispatch
    \/ InterruptAtPrompt

SpecHistory == Init /\ [][NextHistory]_vars

NextExit ==
    \/ ReadLineOfSpecExit
    \/ ParseCommandCall
    \/ Dispatch
    \/ InterruptAtPrompt

SpecExit == Init /\ [][NextExit]_vars

NextVars ==
    \/ ReadLineOfSpecVars
    \/ ParseCommandCall
    \/ Dispatch
    \/ InterruptAtPrompt

SpecVars == Init /\ [][NextVars]_vars

NextGuards ==
    \/ ReadLineOfSpecGuards
    \/ ParseCommandCall
    \/ Dispatch
    \/ InterruptAtPrompt

SpecGuards == Init /\ [][NextGuards]_vars

NextStores ==
    \/ ReadLineOfSpecStores
    \/ ParseCommandCall
    \/ Dispatch
    \/ InterruptAtPrompt

SpecStores == Init /\ [][NextStores]_vars

-----------------------------------------------------------------------------
(* Notions the properties are stated with.                                 *)

\* run_shell has just been given the outcome of resolving `line`: a result
\* (dispatch) or an exception that ended the process (crashed).
Resolved == pc \in {"dispatch", "crashed"}

\* run_shell is back at the prompt after a line that named a registered command.
AfterCommand == pc = "prompt" /\ typed # <<>> /\ command_name \in COMMANDS

\* What the resolver returned, as one list of words.
Resolution == IF command_name = <<>> THEN <<>> ELSE <<command_name>> \o args

has_dollar(word) == \E i \in 1..Len(word) : word[i] = "$"
dollars(word) == Cardinality({i \in 1..Len(word) : word[i] = "$"})
no_dollar(text) == ~has_dollar(text)

\* The first word of an alias' replacement text (the empty word when it is blank).
alias_head(al, a) ==
    LET words == split(al[a]) IN IF words = <<>> THEN <<>> ELSE words[1]

\* Following the heads of the replacement texts from alias `a` leads to `b`
\* in at least one and at most n steps.
RECURSIVE leads_to(_, _, _, _)
leads_to(al, a, b, n) ==
    /\ n > 0
    /\ a \in DOMAIN al
    /\ \/ alias_head(al, a) = b
       \/ leads_to(al, alias_head(al, a), b, n - 1)

on_cycle(al, a) == leads_to(al, a, a, Cardinality(DOMAIN al))
acyclic(al) == \A a \in DOMAIN al : ~on_cycle(al, a)

\* Textual alias expansion of a list of words: the head is replaced by the
\* words of its replacement text until it is no alias.
RECURSIVE alias_expansion(_, _)
alias_expansion(words, al) ==
    IF words # <<>> /\ words[1] \in DOMAIN al
    THEN alias_expansion(split(al[words[1]]) \o Tail(words), al)
    ELSE words

\* Substitution of a word that holds a `$` anywhere: what precedes the last
\* `$`, then the value of the variable named after it.
substituted_anywhere(word, env) ==
    IF has_dollar(word) THEN substitute(word, env) ELSE word

-----------------------------------------------------------------------------
(* C1  Alias cycles.                                                       *)

LineHeadOnCycle ==
    LET words == split(line)
    IN words # <<>> /\ on_cycle(aliases, words[1])

\* C1: resolving a line whose head is an alias on a cycle of the Alias Store
\* ends, after a bounded number of passes, in an alias-cycle failure.
C1_CycleEndsInAliasCycleError ==
    (Resolved /\ LineHeadOnCycle) => (exc = "AliasCycleError")

-----------------------------------------------------------------------------
(* C2  Alias chains.                                                       *)

\* No replacement text of the Alias Store and no value of the Variable Store
\* holds a `$`.
NoDollarInStores ==
    /\ \A a \in DOMAIN aliases : no_dollar(aliases[a])
    /\ \A v \in DOMAIN env_variables : no_dollar(env_variables[v])

\* The words of a line once its `$` words are substituted, pass after pass,
\* until no word starts with `$`.
RECURSIVE fully_substituted(_, _)
fully_substituted(words, env) ==
    IF \E i \in 1..Len(words) : startswith(words[i], "$")
    THEN fully_substituted(split(join(substitute_parts(words, env))), env)
    ELSE words

\* C2: when the aliases form no cycle, resolving a line ends with a result,
\* and the result is the textual alias expansion of the words of the line:
\* the head is replaced by its replacement text, the other words following,
\* until the head is no alias. (The words of the line are taken after the
\* substitution of their variables; stores whose texts themselves hold a `$`
\* are the matter of C4 and C14.)
C2_AcyclicAliasesExpandTextually ==
    (Resolved /\ acyclic(aliases) /\ NoDollarInStores)
        => /\ pc = "dispatch"
           /\ Resolution =
                  alias_expansion(fully_substituted(split(line), env_variables), aliases)

\* `a` has been resolved through the chain a -> "b x", b -> "echo y".
C2_Witness ==
    /\ pc = "dispatch"
    /\ acyclic(aliases)
    /\ NoDollarInStores
    /\ line = w_a
    /\ DOMAIN aliases = {w_a, w_b}
    /\ command_name = c_echo
    /\ args = <<w_y, w_x>>

-----------------------------------------------------------------------------
(* C3  Variable substitution.                                              *)

\* The line is one that substitution alone decides: its words hold at most
\* one `$` each, no value of the Variable Store holds a `$`, and no alias is
\* met.
SubstitutionAlone ==
    LET words == split(line)
        expected == split(join([i \in 1..Len(words) |->
                                    substituted_anywhere(words[i], env_variables)]))
    IN /\ \A i \in 1..Len(words) : dollars(words[i]) <= 1
       /\ \A v \in DOMAIN env_variables : no_dollar(env_variables[v])
       /\ words # <<>> /\ words[1] \notin DOMAIN aliases
       /\ expected # <<>> => expected[1] \notin DOMAIN aliases

\* C3: every word of the line that holds a `$`, at its start or after a
\* literal prefix, is resolved to the prefix followed by the value of the
\* variable named after the `$`.
C3_DollarAnywhereIsSubstituted ==
    (pc = "dispatch" /\ SubstitutionAlone)
        => LET words == split(line)
           IN Resolution = split(join([i \in 1..Len(words) |->
                                          substituted_anywhere(words[i], env_variables)]))

-----------------------------------------------------------------------------
(* C4  Substitution comes before alias lookup.                             *)

\* The first word of the line is `$V` and V holds the name of an alias; no
\* other `$` is involved and the aliases form no cycle.
HeadIsVariableNamingAlias ==
    LET words == split(line)
    IN /\ words # <<>>
       /\ startswith(words[1], "$")
       /\ dollars(words[1]) = 1
       /\ Tail(words[1]) \in DOMAIN env_variables
       /\ env_variables[Tail(words[1])] \in DOMAIN aliases
       /\ \A i \in 2..Len(words) : no_dollar(words[i])
       /\ \A a \in DOMAIN aliases : no_dollar(aliases[a])
       /\ acyclic(aliases)

\* The head of the line is an alias whose replacement text brings in words
\* that start with `$`; the values they stand for hold no `$` and their first
\* is no alias.
AliasTextBringsDollar ==
    LET words == split(line)
        expanded == split(aliases[words[1]]) \o Tail(words)
        substituted == split(join(substitute_parts(expanded, env_variables)))
    IN /\ words # <<>>
       /\ no_dollar(line)
       /\ words[1] \in DOMAIN aliases
       /\ \E i \in 1..Len(expanded) : startswith(expanded[i], "$")
       /\ \A i \in 1..Len(expanded) : dollars(expanded[i]) <= 1
       /\ \A v \in DOMAIN env_variables : no_dollar(env_variables[v])
       /\ substituted # <<>> => substituted[1] \notin DOMAIN aliases

\* C4: a line whose first word is `$V`, V holding an alias name, resolves to
\* the expansion of that alias followed by the other words; and the `$` words
\* an alias' replacement text brings in are substituted.
C4_SubstitutionBeforeAliasLookup ==
    /\ (Resolved /\ HeadIsVariableNamingAlias)
         => LET words == split(line)
                named == env_variables[Tail(words[1])]
            IN /\ pc = "dispatch"
               /\ Resolution = alias_expansion(<<named>> \o Tail(words), aliases)
    /\ (Resolved /\ AliasTextBringsDollar)
         => LET words == split(line)
                expanded == split(aliases[words[1]]) \o Tail(words)
            IN /\ pc = "dispatch"
               /\ Resolution = split(join(substitute_parts(expanded, env_variables)))

\* `$V /tmp` has been resolved with V = ll and ll -> "ls -la".
C4_Witness ==
    /\ pc = "dispatch"
    /\ HeadIsVariableNamingAlias
    /\ line = join(<<dollar(w_V), w_tmp>>)
    /\ command_name = c_ls
    /\ args = << <<"-", "l", "a">>, w_tmp >>

\* `e` has been resolved with e -> "$X y" and X = abc.
C4_WitnessAliasText ==
    /\ pc = "dispatch"
    /\ AliasTextBringsDollar
    /\ line = w_e
    /\ command_name = w_abc
    /\ args = <<w_y>>

-----------------------------------------------------------------------------
(* C5  Quote re-assembly.                                                  *)

\* The re-assembly of a list of words by runs: a word that starts with `"`
\* opens a run, which the first later word that ends with `"` closes; the run
\* becomes its words joined by single spaces without the first and the last
\* character. `closed` tells whether every run that was opened was closed.
RECURSIVE reassembled_from(_, _, _)
reassembled_from(words, i, acc) ==
    IF i > Len(words) THEN [closed |-> TRUE, args |-> acc]
    ELSE IF startswith(words[i], "\"")
    THEN LET closers == {j \in (i + 1)..Len(words) : endswith(words[j], "\"")}
             j == CHOOSE k \in closers : \A m \in closers : k <= m
             run == join(SubSeq(words, i, j))
         IN IF closers = {} THEN [closed |-> FALSE, args |-> acc]
            ELSE reassembled_from(words, j + 1,
                                  Append(acc, SubSeq(run, 2, Len(run) - 1)))
    ELSE reassembled_from(words, i + 1, Append(acc, words[i]))

reassembled(words) == reassembled_from(words, 1, <<>>)

\* The commands whose run is wrapped by remove_quates alone.
QuoteAware == {c_set, c_alias}

\* C5: when every quoted run of the words is closed, the handler is called
\* with each run as one argument (its words joined by single spaces, the
\* leading and the trailing quote removed) and with every other word unchanged
\* and in its place.
C5_QuotedRunsAreJoined ==
    (AfterCommand /\ command_name \in QuoteAware /\ reassembled(args).closed)
        => delivered = << reassembled(args).args >>

\* `set a "a b"` has called set's run with the two arguments a and `a b`.
C5_Witness ==
    /\ AfterCommand
    /\ command_name = c_set
    /\ args = << w_a, <<"\"", "a">>, <<"b", "\"">> >>
    /\ delivered = << << w_a, <<"a", " ", "b">> >> >>
    /\ ran

-----------------------------------------------------------------------------
(* C6  Unmatched quotes.                                                   *)

\* C6: when the words end with a quote opened and not closed, whatever follows
\* the opening quote, the unmatched-quotes error is reported and the handler
\* is not called.
C6_UnclosedQuoteNeverInvokes ==
    (AfterCommand /\ command_name \in QuoteAware \cup {c_grep}
                  /\ ~reassembled(args).closed)
        => /\ out = <<"Unmatched">>
           /\ delivered = <<>>
           /\ ~ran

-----------------------------------------------------------------------------
(* C7  ls on a path that does not exist.                                   *)

\* C7: ls on a path that does not exist reports "No such file or directory",
\* does not report "Not a directory", and does not list.
C7_LsOnMissingPathReportsNotFound ==
    (AfterCommand /\ command_name = c_ls /\ args # <<>> /\ ~exists(args[1]))
        => /\ out = <<"NoSuchFileOrDirectory">>
           /\ \A i \in 1..Len(out) : out[i] # "NotADirectory"
           /\ ~ran

\* `ls /nope` has been run and answered that there is no such path.
C7_Witness ==
    /\ AfterCommand
    /\ command_name = c_ls
    /\ args = <<w_nope>>
    /\ ~exists(w_nope)
    /\ out = <<"NoSuchFileOrDirectory">>

-----------------------------------------------------------------------------
(* C8  Arity errors and runtime faults.                                    *)

\* The arguments the line gives the command do not fit the parameters of its
\* run (for a quote-aware command, the re-assembled arguments).
ArityMismatch ==
    IF command_name \in QuoteAware \cup {c_grep}
    THEN /\ reassembled(args).closed
         /\ ~binds(signature(command_name), reassembled(args).args, empty_dict)
    ELSE ~binds(signature(command_name), args, empty_dict)

\* An exception other than an interrupt left the body of the run.
RuntimeFault == ran /\ exc \notin {"none", "KeyboardInterrupt"}

\* C8: a command given a number of arguments that does not fit is answered
\* with the usage hint alone, and a fault raised while the handler runs with
\* the generic error message followed by the usage hint.
C8_ArityAndFaultsAreDistinguished ==
    /\ (AfterCommand /\ ArityMismatch) => out = <<"Usage">>
    /\ (AfterCommand /\ RuntimeFault)
         => /\ Len(out) >= 2
            /\ SubSeq(out, Len(out) - 1, Len(out)) = <<"ErrorOccurred", "Usage">>

-----------------------------------------------------------------------------
(* C9  Recovery at the dispatch loop.                                      *)

\* C9: no line ends the process abnormally, and the loop is left only by a
\* line that resolves to `exit` or by an interrupt at the prompt.
C9_EveryFailureIsRecovered ==
    /\ pc # "crashed"
    /\ pc = "exited" => (command_name = EXIT \/ exc = "KeyboardInterrupt")

-----------------------------------------------------------------------------
(* C10  The history buffer.                                                *)

\* C10: after n lines the buffer holds the last min(n, 100) of them in the
\* order they were entered, never more than 100, and from the 101st line on
\* the first line is gone.
C10_HistoryHoldsLastLines ==
    LET n == Len(typed)
        kept == IF n < MAX_HISTORY_SIZE THEN n ELSE MAX_HISTORY_SIZE
    IN /\ Len(commands_hostory) <= MAX_HISTORY_SIZE
       /\ commands_hostory = SubSeq(typed, n - kept + 1, n)
       /\ n > MAX_HISTORY_SIZE
            => \A i \in 1..Len(commands_hostory) : commands_hostory[i] # typed[1]

\* The 101st line has been entered and the buffer is full.
C10_Witness ==
    /\ Len(typed) = MAX_HISTORY_SIZE + 1
    /\ Len(commands_hostory) = MAX_HISTORY_SIZE
    /\ commands_hostory[1] = typed[2]

-----------------------------------------------------------------------------
(* C11  The exit sentinel.                                                 *)

\* C11: a line whose resolved command name is `exit`, with or without
\* arguments, ends the loop with the exit message alone: no handler is called,
\* no error is reported and nothing changes; a line that resolves to any other
\* name leaves the loop running.
C11_ExitEndsTheLoopCleanly ==
    [][ pc = "dispatch"
          => IF command_name = EXIT
             THEN /\ pc' = "exited"
                  /\ out' = <<"Exiting">>
                  /\ ~ran' /\ delivered' = <<>> /\ exc' = "none"
                  /\ UNCHANGED << env_variables, aliases, files, dirs, cwd,
                                  commands_hostory >>
             ELSE pc' = "prompt" ]_vars

\* `x a` has ended the loop, x being an alias of `exit`.
C11_Witness ==
    /\ pc = "exited"
    /\ line = join(<<w_x, w_a>>)
    /\ w_x \in DOMAIN aliases
    /\ command_name = EXIT
    /\ args = <<w_a>>
    /\ out = <<"Exiting">>
    /\ exc = "none"

\* `$V` has ended the loop, V holding `exit`.
C11_WitnessVariable ==
    /\ pc = "exited"
    /\ line = dollar(w_V)
    /\ command_name = EXIT
    /\ exc = "none"

-----------------------------------------------------------------------------
(* C12  Idempotence of resolution.                                         *)

\* The line made of what the resolver returned: the command name and the
\* arguments joined by single spaces.
ResolutionLine == join(Resolution)

\* C12: when the resolver has returned (command, args) and no returned token
\* holds a `$`, resolving the returned tokens joined by single spaces, with
\* the same stores, returns the same (command, args).
C12_ResolutionIsIdempotent ==
    (pc = "dispatch" /\ \A i \in 1..Len(Resolution) : no_dollar(Resolution[i]))
        => LET again == parse_command(ResolutionLine, env_variables, aliases, 0)
           IN /\ again.kind = "return"
              /\ again.command_name = command_name
              /\ again.args = args

\* `a` has been resolved to `echo y x` through two aliases, and `echo y x`
\* is resolved to itself.
C12_Witness ==
    /\ pc = "dispatch"
    /\ line = w_a
    /\ DOMAIN aliases = {w_a, w_b}
    /\ ResolutionLine = join(<<c_echo, w_y, w_x>>)
    /\ ResolutionLine # line
    /\ parse_command(ResolutionLine, env_variables, aliases, 0)
         = parse_return(c_echo, <<w_y, w_x>>)

-----------------------------------------------------------------------------
(* C13  Interrupts.                                                        *)

\* C13: an interrupt that arrives while a handler runs is reported and ends
\* that line only: the loop is back at the prompt and what the handler had
\* not done yet is not done. An interrupt that arrives while the loop waits
\* for a line ends the interpreter with the exit message.
C13_InterruptAbortsLineOrEndsLoop ==
    [][ exc' = "KeyboardInterrupt"
          => IF pc = "dispatch"
             THEN /\ pc' = "prompt"
                  /\ ran'
                  /\ out' = <<"Interrupted">>
                  /\ UNCHANGED << env_variables, aliases, files, dirs, cwd,
                                  commands_hostory >>
             ELSE /\ pc = "prompt"
                  /\ pc' = "exited"
                  /\ out' = <<"Exiting">> ]_vars

\* `rm /f` has been interrupted at its question: the loop is at the prompt and
\* the file is still there.
C13_Witness ==
    /\ pc = "prompt"
    /\ exc = "KeyboardInterrupt"
    /\ command_name = c_rm
    /\ args = <<p_f>>
    /\ ran
    /\ p_f \in files
    /\ out = <<"Interrupted">>

\* `sleep 1` has been interrupted.
C13_WitnessSleep ==
    /\ pc = "prompt"
    /\ exc = "KeyboardInterrupt"
    /\ command_name = c_sleep
    /\ out = <<"Interrupted">>

\* The loop has been interrupted while it waited for the second line.
C13_WitnessAtPrompt ==
    /\ pc = "exited"
    /\ exc = "KeyboardInterrupt"
    /\ Len(typed) = 1
    /\ out = <<"Exiting">>

-----------------------------------------------------------------------------
(* C14  Termination of variable substitution.                              *)

\* C14: whatever the Variable Store holds after `set` commands, and no alias
\* being defined, resolving a line ends with a result: the passes that
\* re-expand substituted values come to an end, also when a value begins with
\* a reference to its own variable or to a variable that refers back to it.
C14_SubstitutionTerminates ==
    (Resolved /\ aliases = empty_dict) => pc = "dispatch"

-----------------------------------------------------------------------------
(* C15  The order of the guards.                                           *)

\* The commands that guard a path by its existence and by its type: those
\* that want a directory and those that want a file.
DirectoryGuarded == {c_cd, c_ls, c_rmdir}
FileGuarded == {c_rm, c_head, c_tail, c_grep}

\* The arguments the guards of the command see.
GuardedArgs ==
    IF command_name = c_grep THEN reassembled(args).args ELSE args

\* The place of the designated path among them.
DesignatedPosition ==
    IF command_name \in {c_head, c_tail, c_grep} THEN 2 ELSE 1

\* The line is given to a guarded command and names its designated path.
DesignatedPathGiven ==
    /\ pc = "dispatch"
    /\ command_name \in DirectoryGuarded \cup FileGuarded
    /\ command_name = c_grep => reassembled(args).closed
    /\ Len(GuardedArgs) >= DesignatedPosition

DesignatedPath == GuardedArgs[DesignatedPosition]

\* C15: for cd, ls, rmdir, rm, head, tail and grep, a designated path that
\* does not exist is answered with the not-found diagnostic, never with the
\* not-a-file or the not-a-directory diagnostic.
C15_MissingPathReportsNotFound ==
    [][ (DesignatedPathGiven /\ ~exists(DesignatedPath))
          => out' = <<"NoSuchFileOrDirectory">> ]_vars

-----------------------------------------------------------------------------
(* C16  A guard that fails ends the command.                               *)

\* The diagnostics of the guards of the command whose test the designated
\* path fails.
FailedDiagnostics ==
    (IF ~exists(DesignatedPath) THEN {"NoSuchFileOrDirectory"} ELSE {})
      \cup (IF command_name \in DirectoryGuarded /\ ~isdir(DesignatedPath)
            THEN {"NotADirectory"} ELSE {})
      \cup (IF command_name \in FileGuarded /\ ~isfile(DesignatedPath)
            THEN {"NotAFile"} ELSE {})

\* C16: when the designated path fails a guard of the command, one diagnostic
\* is printed, that of a guard the path fails, and nothing else: the handler
\* is not called, the file system, the working directory and the stores are
\* as before, no exception reaches the loop, which prints neither the usage
\* hint nor the generic error and is back at the prompt.
C16_FailedGuardEndsTheCommand ==
    [][ (DesignatedPathGiven /\ FailedDiagnostics # {})
          => /\ Len(out') = 1
             /\ out'[1] \in FailedDiagnostics
             /\ ~ran' /\ delivered' = <<>>
             /\ exc' = "none"
             /\ pc' = "prompt"
             /\ UNCHANGED << files, dirs, cwd, env_variables, aliases >> ]_vars

\* `cd /f` has been answered "Not a directory" and the working directory is
\* the one before.
C16_Witness ==
    /\ AfterCommand
    /\ command_name = c_cd
    /\ args = <<p_f>>
    /\ p_f \in files
    /\ out = <<"NotADirectory">>
    /\ ~ran
    /\ cwd = p_root

-----------------------------------------------------------------------------
(* C17  A word with a quote at both ends.                                  *)

\* The word has a quote at its start and another at its end.
quoted_word(word) ==
    Len(word) >= 2 /\ startswith(word, "\"") /\ endswith(word, "\"")

\* The words after place i that end with a quote.
closers_after(words, i) ==
    {j \in (i + 1)..Len(words) : endswith(words[j], "\"")}

first_of(places) == CHOOSE k \in places : \A m \in places : k <= m

\* Place i of the words is met outside a quoted run: no run opened at an
\* earlier place reaches it.
RECURSIVE outside_run_from(_, _, _)
outside_run_from(words, k, i) ==
    IF k = i THEN TRUE
    ELSE IF startswith(words[k], "\"")
    THEN /\ closers_after(words, k) # {}
         /\ first_of(closers_after(words, k)) < i
         /\ outside_run_from(words, first_of(closers_after(words, k)) + 1, i)
    ELSE outside_run_from(words, k + 1, i)

outside_run(words, i) == outside_run_from(words, 1, i)

\* C17: a word with a quote at both ends, met outside a quoted run, opens a
\* run and does not close it. When a later word ends with a quote, the run
\* goes up to the first such word and is handed on as one argument that
\* keeps the closing quote of the opening word inside; when none does, the
\* unmatched-quotes error is reported and the handler is not called.
C17_QuotedWordOnlyOpens ==
    (AfterCommand /\ command_name \in QuoteAware)
        => \A i \in 1..Len(args) :
             (quoted_word(args[i]) /\ outside_run(args, i))
                => IF closers_after(args, i) = {}
                   THEN /\ out = <<"Unmatched">>
                        /\ delivered = <<>>
                        /\ ~ran
                   ELSE LET j == first_of(closers_after(args, i))
                            run == join(SubSeq(args, i, j))
                        IN reassembled(args).closed
                             => /\ delivered # <<>>
                                /\ \E k \in 1..Len(delivered[1]) :
                                      delivered[1][k] = SubSeq(run, 2, Len(run) - 1)

\* `set a "c" b"` has called set's run with the arguments a and `c" b`.
C17_Witness ==
    /\ AfterCommand
    /\ command_name = c_set
    /\ args = << w_a, <<"\"", "c", "\"">>, <<"b", "\"">> >>
    /\ delivered = << << w_a, <<"c", "\"", " ", "b">> >> >>
    /\ ran

\* `set a "c"` has been answered with the unmatched-quotes error.
C17_WitnessUnmatched ==
    /\ AfterCommand
    /\ command_name = c_set
    /\ args = << w_a, <<"\"", "c", "\"">> >>
    /\ out = <<"Unmatched">>
    /\ ~ran

-----------------------------------------------------------------------------
(* C18  The resolver reads the stores and writes nothing.                  *)

\* C18: no pass of the resolver changes the Variable Store, the Alias Store
\* or the history buffer. The Variable Store changes only while set or unset
\* is run, the Alias Store only while alias or unalias is run, and the history
\* only when the loop reads a line, by the insertion of that line.
C18_ResolverIsReadOnly ==
    [][ /\ pc = "parse"
          => UNCHANGED << env_variables, aliases, commands_hostory >>
        /\ env_variables' # env_variables
          => pc = "dispatch" /\ command_name \in {c_set, c_unset}
        /\ aliases' # aliases
          => pc = "dispatch" /\ command_name \in {c_alias, c_unalias}
        /\ commands_hostory' # commands_hostory
          => /\ pc = "prompt" /\ pc' = "parse"
             /\ typed' = Append(typed, line')
             /\ commands_hostory' = add_to_history(commands_hostory, line') ]_vars

\* `a $X` has been resolved in three passes, with a variable and an alias in
\* the stores, and the history holds the lines entered and nothing else.
C18_Witness ==
    /\ pc = "dispatch"
    /\ line = join(<<w_a, dollar(w_X)>>)
    /\ depth = 3
    /\ command_name = c_echo
    /\ args = <<w_b, w_v>>
    /\ env_variables = dict_set(empty_dict, w_X, w_v)
    /\ DOMAIN aliases = {w_a}
    /\ commands_hostory = typed

-----------------------------------------------------------------------------
(* C19  What the resolver returns is a fixpoint.                           *)

\* C19: a command name the resolver returns is not a key of the Alias Store,
\* and no token it returns, the command name or an argument, still holds a
\* `$` to substitute; a line that is blank once trimmed, or blank once its
\* variables are substituted, gives the empty command without arguments.
C19_ResolutionIsAFixpoint ==
    pc = "dispatch"
        => /\ command_name # <<>>
                => /\ command_name \notin DOMAIN aliases
                   /\ \A i \in 1..Len(Resolution) : no_dollar(Resolution[i])
           /\ strip(line) = <<>> => (command_name = <<>> /\ args = <<>>)
           /\ ( /\ \A v \in DOMAIN env_variables : no_dollar(env_variables[v])
                /\ fully_substituted(split(line), env_variables) = <<>> )
                => (command_name = <<>> /\ args = <<>>)

-----------------------------------------------------------------------------
(* C20  The keys of the stores.                                            *)

\* A name that is an identifier: letters, digits and underscores, the first
\* of them not a digit.
ValidKey(name) ==
    /\ Len(name) >= 1
    /\ name[1] \notin DigitChars
    /\ \A i \in 1..Len(name) :
          name[i] \in LowerCase \cup UpperCase \cup DigitChars \cup {"_"}

KeysAreIdentifiers ==
    \A name \in DOMAIN env_variables \cup DOMAIN aliases : ValidKey(name)

\* Store `after` is store `before` with the entry of `name` set to `value`.
only_sets(before, after, name, value) ==
    /\ DOMAIN after = DOMAIN before \cup {name}
    /\ after[name] = value
    /\ \A k \in DOMAIN before \ {name} : after[k] = before[k]

\* Store `after` is store `before` without the entry of `name`.
only_removes(before, after, name) ==
    /\ DOMAIN after = DOMAIN before \ {name}
    /\ \A k \in DOMAIN after : after[k] = before[k]

\* What a step that runs set, unset, alias or unalias with the number of
\* arguments it takes does to the stores.
StoreCommandFrame ==
    LET a == IF command_name \in QuoteAware THEN reassembled(args).args ELSE args
    IN /\ ( /\ pc = "dispatch" /\ command_name = c_set
            /\ reassembled(args).closed /\ Len(a) = 2 )
          => /\ aliases' = aliases
             /\ IF ValidKey(a[1])
                THEN only_sets(env_variables, env_variables', a[1], a[2])
                ELSE out' = <<"InvalidName">> /\ env_variables' = env_variables
       /\ ( /\ pc = "dispatch" /\ command_name = c_alias
            /\ reassembled(args).closed /\ Len(a) = 2 )
          => /\ env_variables' = env_variables
             /\ IF ValidKey(a[1])
                THEN only_sets(aliases, aliases', a[1], a[2])
                ELSE out' = <<"InvalidName">> /\ aliases' = aliases
       /\ (pc = "dispatch" /\ command_name = c_unset /\ Len(a) = 1)
          => /\ aliases' = aliases
             /\ IF a[1] \in DOMAIN env_variables
                THEN only_removes(env_variables, env_variables', a[1])
                ELSE out' = <<"NotSet">> /\ env_variables' = env_variables
       /\ (pc = "dispatch" /\ command_name = c_unalias /\ Len(a) = 1)
          => /\ env_variables' = env_variables
             /\ IF a[1] \in DOMAIN aliases
                THEN only_removes(aliases, aliases', a[1])
                ELSE out' = <<"NotFound">> /\ aliases' = aliases

\* C20: every key of the Variable Store and of the Alias Store is an
\* identifier. set and alias with a name that is not one report it, and unset
\* and unalias of a name that is not present report it, and leave both stores
\* as they are; set, unset, alias and unalias that succeed change the entry
\* of the named key of their store and nothing else in either store.
C20_StoreKeysAreIdentifiers ==
    /\ []KeysAreIdentifiers
    /\ [][StoreCommandFrame]_vars

\* `set 1x v` has been refused after `set X v` and `alias a "echo b"`: both
\* stores hold what they held.
C20_Witness ==
    /\ AfterCommand
    /\ command_name = c_set
    /\ args = <<w_1x, w_v>>
    /\ out = <<"InvalidName">>
    /\ env_variables = dict_set(empty_dict, w_X, w_v)
    /\ aliases = dict_set(empty_dict, w_a, join(<<c_echo, w_b>>))

\* `unset X` has removed X and left the variable a and the aliases.
C20_WitnessUnset ==
    /\ AfterCommand
    /\ command_name = c_unset
    /\ args = <<w_X>>
    /\ out = <<>>
    /\ env_variables = dict_set(empty_dict, w_a, w_x)

====
